---- MODULE Spec2Model ----
(***************************************************************************)
(* Model of ccd/models/lasso.py (harmonic design matrix, its memoizing     *)
(* cache, the lasso fit) and ccd/qa.py (quality masks, counts, ratios and  *)
(* the composite observation filter).                                      *)
(*                                                                         *)
(* Floating point values are kept as terms: [fn, h, t] stands for the      *)
(* float np.fn(h*w*t) with w = 2*pi/avg_days_yr, "val" for float(t) and    *)
(* "zero" for the 0.0 np.zeros leaves behind.  Ratios are kept as exact    *)
(* fractions [num, den]; ratio_snow's is scaled by 100 so that its 0.01    *)
(* epsilon is an integer.                                                  *)
(***************************************************************************)
EXTENDS Integers, Sequences, FiniteSets

VARIABLES cache, last, watch, recent,      \* the cache and its callers
          thr, cin, cache0,                \* two concurrent callers
          fin, fout                        \* one application of a pure function

vars == <<cache, last, watch, recent, thr, cin, cache0, fin, fout>>

(***************************************************************************)
(* Bounds of the model.                                                    *)
(***************************************************************************)
\* capacity of the LRU cache, scaled down from LRUCache(maxsize=1000)
maxsize == 2
\* the observation-date sequences the callers draw from (ordinal dates are
\* at least 1): empty, equal length, same dates in another order, longer
Dates == {<< >>, <<1>>, <<2>>, <<1, 2>>, <<2, 1>>, <<1, 2, 3>>}
\* num_coeffs values a caller passes
Coeffs == {4, 6, 8}

(***************************************************************************)
(* Terms for matrix entries.                                               *)
(***************************************************************************)
Zero == [fn |-> "zero", h |-> 0, t |-> 0]
Val(t) == [fn |-> "val", h |-> 0, t |-> t]

\* np.cos / np.sin of (h * w * t) for a date t >= 1: 2*w is exact in binary
\* floating point, so (2*w)*t and w*(2*t) are the same float
Trig(fn, h, t) ==
    IF h = 2 THEN [fn |-> fn, h |-> 1, t |-> 2 * t]
    ELSE [fn |-> fn, h |-> h, t |-> t]

\* the row of the matrix for date t, as lines 29-41 fill it
Row(t, num_coeffs) ==
    << Val(t), Trig("cos", 1, t), Trig("sin", 1, t),
       IF num_coeffs = 6 THEN Trig("cos", 2, t) ELSE Zero,
       IF num_coeffs = 6 THEN Trig("sin", 2, t) ELSE Zero,
       IF num_coeffs = 8 THEN Trig("cos", 3, t) ELSE Zero,
       IF num_coeffs = 8 THEN Trig("sin", 3, t) ELSE Zero,
       Zero >>

\* the body of coefficient_matrix: one row of 8 per observation date
coefficient_matrix_body(observation_dates, num_coeffs) ==
    [i \in 1..Len(observation_dates) |-> Row(observation_dates[i], num_coeffs)]

(***************************************************************************)
(* A call's positional arguments are a tuple: <<dates>> or                 *)
(* <<dates, num_coeffs>>.                                                  *)
(***************************************************************************)
DefaultCoeffs == 4
Args == {<<d>> : d \in Dates} \cup {<<d, n>> : d \in Dates, n \in Coeffs}
NumCoeffs(args) == IF Len(args) >= 2 THEN args[2] ELSE DefaultCoeffs

\* outcomes of a call
NoMatrix == << >>
Returned(m) == [kind |-> "matrix", m |-> m]
Raised(e) == [kind |-> e, m |-> NoMatrix]

\* __coefficient_cache_key takes exactly one positional parameter and the
\* cached wrapper hands it every argument of the call (key(*args, **kwargs)):
\* a call that passes num_coeffs raises TypeError before the cache is read
KeyAccepts(args) == Len(args) = 1
cache_key(args) == args[1]

(***************************************************************************)
(* LRUCache(maxsize): the dictionary of values (data), the running total   *)
(* of their sizes (currsize) and the keys in order of use, least recently  *)
(* used first (order).  The cache is built without getsizeof, so the size  *)
(* of every value is the constant 1 and the size table keeps nothing per   *)
(* key: reading it gives 1 and never fails.  One operator per statement    *)
(* of the library's methods; a caller that runs alone composes them.       *)
(***************************************************************************)
EmptyCache == [data |-> {}, order |-> << >>, currsize |-> 0]
KeySet(c) == {e.key : e \in c.data}
\* key in self.__data
Has(c, k) == k \in KeySet(c)
\* self.__data[key]
GetValue(c, k) == (CHOOSE e \in c.data : e.key = k).val
InOrder(c, k) == \E i \in 1..Len(c.order) : c.order[i] = k
\* self.__order.move_to_end(key)
MoveToEnd(c, k) == [c EXCEPT !.order = Append(SelectSeq(@, LAMBDA x : x # k), k)]
\* self.__order[key] = None: a key already there keeps its place
InsertOrder(c, k) == IF InOrder(c, k) THEN c ELSE [c EXCEPT !.order = Append(@, k)]
SetData(c, k, v) ==
    [c EXCEPT !.data = {e \in @ : e.key # k} \cup {[key |-> k, val |-> v]}]
SetCurrsize(c, n) == [c EXCEPT !.currsize = n]
DelData(c, k) == [c EXCEPT !.data = {e \in @ : e.key # k}]
DelOrder(c, k) == [c EXCEPT !.order = SelectSeq(@, LAMBDA x : x # k)]

TouchNoMove(c, k) == InsertOrder(c, k)

\* LRUCache.__update: move_to_end, and on KeyError insert at the end
Touch(c, k) == IF InOrder(c, k) THEN MoveToEnd(c, k) ELSE InsertOrder(c, k)

\* LRUCache.__delitem__: del data, currsize -= size, del order
DelItem(c, k) == DelOrder(SetCurrsize(DelData(c, k), c.currsize - 1), k)

\* LRUCache.popitem: the first key of order; pop reads it (which touches
\* it) and deletes it
PopItem(c) == LET k == Head(c.order) IN DelItem(Touch(c, k), k)

RECURSIVE MakeRoom(_)
\* while self.__currsize + size > maxsize: self.popitem()
MakeRoom(c) == IF c.currsize + 1 > maxsize THEN MakeRoom(PopItem(c)) ELSE c

\* cache[k] = v by a caller that runs alone: a new key first evicts from the
\* least recently used end; the key ends as the most recently used
Put(c, k, v) ==
    LET room == IF ~Has(c, k) THEN MakeRoom(c) ELSE c
        diffsize == IF Has(room, k) THEN 0 ELSE 1
    IN Touch(SetCurrsize(SetData(room, k, v), room.currsize + diffsize), k)

LookupMRU(c, k) == GetValue(c, c.order[Len(c.order)])

Lookup(c, k) == GetValue(c, k)

\* the cached wrapper around coefficient_matrix, run to completion
CachedCall(c, args) ==
    IF ~KeyAccepts(args) THEN [out |-> Raised("TypeError"), cache |-> c, hit |-> FALSE]
    ELSE LET k == cache_key(args) IN
         IF Has(c, k)
         THEN [out |-> Returned(Lookup(c, k)), cache |-> Touch(c, k), hit |-> TRUE]
         ELSE LET v == coefficient_matrix_body(args[1], NumCoeffs(args)) IN
              [out |-> Returned(v), cache |-> Put(c, k, v), hit |-> FALSE]

(***************************************************************************)
(* Sequential callers of coefficient_matrix.                               *)
(***************************************************************************)
NoCall == [args |-> << >>, out |-> Raised("none"), hit |-> FALSE, wasFull |-> FALSE]
Threads == {1, 2}
NoThreads == [i \in Threads |-> [pc |-> "idle"]]
NoInput == [fn |-> "none"]
NoOutput == [kind |-> "none"]

\* the keys of the returned calls, most recent last, cut to the capacity
Remember(r, k) ==
    LET s == Append(SelectSeq(r, LAMBDA x : x # k), k) IN
    IF Len(s) > maxsize THEN Tail(s) ELSE s

Init ==
    /\ cache = EmptyCache
    /\ last = NoCall
    /\ watch = NoCall
    /\ recent = << >>
    /\ thr = NoThreads
    /\ cin = << >>
    /\ cache0 = EmptyCache
    /\ fin = NoInput
    /\ fout = NoOutput

\* one call run to completion; watch keeps one returned call, picked at
\* will, to compare the later ones with
Call(args, keep) ==
    LET r == CachedCall(cache, args)
        call == [args |-> args, out |-> r.out, hit |-> r.hit,
                 wasFull |-> Cardinality(cache.data) = maxsize]
    IN
    /\ cache' = r.cache
    /\ last' = call
    /\ watch' = IF watch = NoCall /\ r.out.kind = "matrix" /\ keep THEN call ELSE watch
    /\ recent' = IF r.out.kind = "matrix" THEN Remember(recent, args[1]) ELSE recent
    /\ UNCHANGED <<thr, cin, cache0, fin, fout>>

Next == \E args \in Args, keep \in BOOLEAN : Call(args, keep)

Spec == Init /\ [][Next]_vars

(***************************************************************************)
(* Claims about the cached coefficient_matrix.                             *)
(***************************************************************************)
IsCall(c) == c # NoCall
DatesOf(c) == c.args[1]
Rows(m) == 1..Len(m)
\* columns (counted from 0) from..7 of every row are the 0.0 of np.zeros
ZeroFrom(m, from) == \A i \in Rows(m) : \A j \in (from + 1)..8 : m[i][j] = Zero

\* C2: every call with num_coeffs in {4,6,8} and at least one date returns a matrix with one row
\* of 8 per date whose columns beyond those num_coeffs implies (from column
\* num_coeffs - 1 on) are zero; column 7 is zero in every returned matrix
C2_ShapeAndZeroColumns ==
    IsCall(last) /\ DatesOf(last) # << >> /\ NumCoeffs(last.args) \in Coeffs =>
        /\ last.out.kind = "matrix"
        /\ Len(last.out.m) = Len(DatesOf(last))
        /\ \A i \in Rows(last.out.m) : Len(last.out.m[i]) = 8
        /\ ZeroFrom(last.out.m, NumCoeffs(last.args) - 1)
        /\ ZeroFrom(last.out.m, 7)

\* C4: a call with the (non-empty) dates of an earlier returned call and
\* another num_coeffs returns the matrix computed for the earlier call's
\* num_coeffs
C4_StaleMatrixServed ==
    IsCall(watch) /\ IsCall(last) /\ DatesOf(last) = DatesOf(watch)
        /\ DatesOf(last) # << >>
        /\ NumCoeffs(last.args) # NumCoeffs(watch.args) =>
        last.out = Returned(coefficient_matrix_body(DatesOf(watch), NumCoeffs(watch.args)))

\* C5: a call that returns for the dates of an earlier returned call returns
\* the matrix the earlier call returned, whatever was called in between
C5_SameDatesSameMatrix ==
    IsCall(watch) /\ IsCall(last) /\ last.out.kind = "matrix"
        /\ DatesOf(last) = DatesOf(watch) =>
        last.out.m = watch.out.m

\* the earlier dates are called again after calls with other dates filled
\* the cache
C5_Witness ==
    /\ IsCall(watch) /\ IsCall(last) /\ last # watch
    /\ last.out.kind = "matrix" /\ DatesOf(last) = DatesOf(watch)
    /\ Len(recent) = maxsize

\* C10: the cache holds at most maxsize entries with distinct keys, and they
\* are exactly the maxsize most recently returned keys (a new key on a full
\* cache evicted the least recently used one and nothing else); the matrix
\* an earlier caller holds is what it was given
C10_BoundedLRU ==
    /\ Cardinality(cache.data) <= maxsize
    /\ Cardinality(KeySet(cache)) = Cardinality(cache.data)
    /\ KeySet(cache) = {recent[i] : i \in 1..Len(recent)}
    /\ IsCall(watch) =>
        watch.out.m = coefficient_matrix_body(DatesOf(watch), NumCoeffs(watch.args))

\* a new key arrived at a full cache, and the earlier caller's key is no
\* longer cached
C10_Witness ==
    /\ IsCall(last) /\ last.wasFull /\ ~last.hit /\ last.out.kind = "matrix"
    /\ IsCall(watch) /\ ~Has(cache, DatesOf(watch))

(***************************************************************************)
(* Two threads call coefficient_matrix with the same arguments.  The       *)
(* wrapper takes no lock (cached(cache=cache, key=...) without lock=), so  *)
(* the threads interleave between the statements of the wrapper and of     *)
(* the cache's methods.  A KeyError inside cache[k] is the wrapper's miss; *)
(* any error inside cache[k] = v but ValueError leaves the call.           *)
(***************************************************************************)
RECURSIVE Filled(_, _)
\* the cache after calls for the keys of s, one after the other
Filled(c, s) ==
    IF s = << >> THEN c
    ELSE Filled(Put(c, Head(s), coefficient_matrix_body(Head(s), DefaultCoeffs)), Tail(s))

\* the caches a run of returned calls can leave: up to maxsize distinct
\* keys in any order of use, each with the matrix computed for it
InitCaches ==
    {Filled(EmptyCache, s) :
        s \in {x \in UNION {[1..n -> Dates] : n \in 0..maxsize} :
                  \A i, j \in 1..Len(x) : i # j => x[i] # x[j]}}

NoKey == << >>
\* iter(self.__order): the key the iterator stands on (none when the order
\* was empty) and whether the order has changed since it was made
NoIter == [empty |-> TRUE, cur |-> NoKey, mutated |-> FALSE]
Iter(c) ==
    IF c.order = << >> THEN NoIter
    ELSE [empty |-> FALSE, cur |-> Head(c.order), mutated |-> FALSE]

Start(pc) ==
    [pc |-> pc, v |-> NoMatrix, computed |-> FALSE, out |-> Raised("none"),
     got |-> NoMatrix, ek |-> NoKey, uk |-> NoKey, it |-> NoIter, need |-> FALSE,
     diffsize |-> 0, cs |-> 0, after |-> "none"]
\* the end of a call: its locals are gone
Finish(t, out) == [Start("done") EXCEPT !.computed = t.computed, !.out = out]

InitConc ==
    /\ cache \in InitCaches
    /\ cache0 = cache
    /\ cin \in Args
    /\ thr = [i \in Threads |-> Start("key")]
    /\ last = NoCall
    /\ watch = NoCall
    /\ recent = << >>
    /\ fin = NoInput
    /\ fout = NoOutput

Others == <<last, watch, recent, cin, cache0, fin, fout>>
At(i, pc) == thr[i].pc = pc
Goto(i, pc) == thr' = [thr EXCEPT ![i].pc = pc]
Set(i, t) == thr' = [thr EXCEPT ![i] = t]
Key == cache_key(cin)

\* a statement of thread i that leaves the order as c2: the OrderedDict
\* counts its changes, and an iterator another thread made before a change
\* finds the count moved at its next()
Mutate(i, t, c2) ==
    thr' = [j \in Threads |->
               IF j = i THEN t
               ELSE IF thr[j].pc = "pop next" /\ c2.order # cache.order
                    THEN [thr[j] EXCEPT !.it.mutated = TRUE]
                    ELSE thr[j]]

\* where a thread goes once the order is updated
Continue(t) ==
    IF t.after = "return got" THEN Finish(t, Returned(t.got))
    ELSE IF t.after = "return v" THEN Finish(t, Returned(t.v))
    ELSE [t EXCEPT !.pc = t.after, !.after = "none", !.uk = NoKey]

\* LRUCache.__update(key), first statement: move_to_end (a key that is
\* already the last stays, and the order is not changed), or KeyError
Update(i, key, after) ==
    IF InOrder(cache, key)
    THEN /\ cache' = MoveToEnd(cache, key)
         /\ Mutate(i, Continue([thr[i] EXCEPT !.after = after]), MoveToEnd(cache, key))
    ELSE /\ cache' = cache
         /\ Set(i, [thr[i] EXCEPT !.pc = "insert order", !.after = after, !.uk = key])

\* k = key(*args, **kwargs)
KeyStep(i) ==
    /\ At(i, "key")
    /\ Set(i, IF KeyAccepts(cin) THEN [thr[i] EXCEPT !.pc = "lookup"]
              ELSE Finish(thr[i], Raised("TypeError")))
    /\ UNCHANGED <<cache, Others>>

\* cache[k], Cache.__getitem__: the value, or KeyError (the wrapper's miss)
LookupStep(i) ==
    /\ At(i, "lookup")
    /\ Set(i, IF Has(cache, Key)
              THEN [thr[i] EXCEPT !.pc = "lookup in", !.got = GetValue(cache, Key)]
              ELSE [thr[i] EXCEPT !.pc = "compute"])
    /\ UNCHANGED <<cache, Others>>

\* LRUCache.__getitem__: if key in self (else return value)
LookupIn(i) ==
    /\ At(i, "lookup in")
    /\ Set(i, IF Has(cache, Key) THEN [thr[i] EXCEPT !.pc = "lookup update"]
              ELSE Finish(thr[i], Returned(thr[i].got)))
    /\ UNCHANGED <<cache, Others>>

\* LRUCache.__getitem__: self.__update(key); return value
LookupUpdate(i) ==
    /\ At(i, "lookup update")
    /\ Update(i, Key, "return got")
    /\ UNCHANGED Others

\* v = func(*args, **kwargs)
ComputeStep(i) ==
    /\ At(i, "compute")
    /\ Set(i, [thr[i] EXCEPT !.pc = "store", !.computed = TRUE,
                 !.v = coefficient_matrix_body(cin[1], NumCoeffs(cin))])
    /\ UNCHANGED <<cache, Others>>

\* Cache.__setitem__: if key not in self.__data or self.__size[key] < size
\* (the size of a key that is there is 1, never less than size)
StoreCheck(i) ==
    /\ At(i, "store")
    /\ Set(i, [thr[i] EXCEPT !.pc = "room", !.need = ~Has(cache, Key)])
    /\ UNCHANGED <<cache, Others>>

\* while self.__currsize + size > maxsize
StoreRoom(i) ==
    /\ At(i, "room")
    /\ Goto(i, IF thr[i].need /\ cache.currsize + 1 > maxsize THEN "pop" ELSE "diffsize")
    /\ UNCHANGED <<cache, Others>>

\* LRUCache.popitem: iter(self.__order)
PopIter(i) ==
    /\ At(i, "pop")
    /\ Set(i, [thr[i] EXCEPT !.pc = "pop next", !.it = Iter(cache)])
    /\ UNCHANGED <<cache, Others>>

\* LRUCache.popitem: key = next(...): StopIteration of an iterator made on
\* an empty order becomes KeyError; RuntimeError when the order has changed
\* since iter(); else the key that was first
PopNext(i) ==
    /\ At(i, "pop next")
    /\ Set(i, IF thr[i].it.empty THEN Finish(thr[i], Raised("KeyError"))
              ELSE IF thr[i].it.mutated THEN Finish(thr[i], Raised("RuntimeError"))
              ELSE [thr[i] EXCEPT !.pc = "pop check", !.ek = thr[i].it.cur,
                                  !.it = NoIter])
    /\ UNCHANGED <<cache, Others>>

\* Cache.pop: if key in self ... else raise KeyError(key)
PopCheck(i) ==
    /\ At(i, "pop check")
    /\ Set(i, IF Has(cache, thr[i].ek) THEN [thr[i] EXCEPT !.pc = "pop get"]
              ELSE Finish(thr[i], Raised("KeyError")))
    /\ UNCHANGED <<cache, Others>>

\* Cache.pop: value = self[key], Cache.__getitem__
PopGet(i) ==
    /\ At(i, "pop get")
    /\ Set(i, IF Has(cache, thr[i].ek) THEN [thr[i] EXCEPT !.pc = "pop in"]
              ELSE Finish(thr[i], Raised("KeyError")))
    /\ UNCHANGED <<cache, Others>>

\* Cache.pop: value = self[key], LRUCache.__getitem__: if key in self
PopIn(i) ==
    /\ At(i, "pop in")
    /\ Goto(i, IF Has(cache, thr[i].ek) THEN "pop touch" ELSE "del data")
    /\ UNCHANGED <<cache, Others>>

\* Cache.pop: value = self[key], LRUCache.__getitem__: self.__update(key)
PopTouch(i) ==
    /\ At(i, "pop touch")
    /\ Update(i, thr[i].ek, "del data")
    /\ UNCHANGED Others

\* Cache.__delitem__: size = self.__size.pop(key), which is 1;
\* del self.__data[key]
PopDelData(i) ==
    /\ At(i, "del data")
    /\ IF Has(cache, thr[i].ek)
       THEN /\ cache' = DelData(cache, thr[i].ek)
            /\ Goto(i, "del currsize")
       ELSE /\ cache' = cache
            /\ Set(i, Finish(thr[i], Raised("KeyError")))
    /\ UNCHANGED Others

\* Cache.__delitem__: self.__currsize -= size, the read
PopReadCurrsize(i) ==
    /\ At(i, "del currsize")
    /\ Set(i, [thr[i] EXCEPT !.pc = "del currsize write", !.cs = cache.currsize])
    /\ UNCHANGED <<cache, Others>>

\* Cache.__delitem__: self.__currsize -= size, the write
PopWriteCurrsize(i) ==
    /\ At(i, "del currsize write")
    /\ cache' = SetCurrsize(cache, thr[i].cs - 1)
    /\ Set(i, [thr[i] EXCEPT !.pc = "del order", !.cs = 0])
    /\ UNCHANGED Others

\* LRUCache.__delitem__: del self.__order[key]; then the while test again
PopDelOrder(i) ==
    /\ At(i, "del order")
    /\ IF InOrder(cache, thr[i].ek)
       THEN /\ cache' = DelOrder(cache, thr[i].ek)
            /\ Mutate(i, [thr[i] EXCEPT !.pc = "room", !.ek = NoKey],
                      DelOrder(cache, thr[i].ek))
       ELSE /\ cache' = cache
            /\ Set(i, Finish(thr[i], Raised("KeyError")))
    /\ UNCHANGED Others

\* if key in self.__data: diffsize = size - self.__size[key]
\* else: diffsize = size
StoreDiffsize(i) ==
    /\ At(i, "diffsize")
    /\ Set(i, [thr[i] EXCEPT !.pc = "data",
                 !.diffsize = IF Has(cache, Key) THEN 0 ELSE 1])
    /\ UNCHANGED <<cache, Others>>

\* self.__data[key] = value; self.__size[key] = size keeps nothing
StoreData(i) ==
    /\ At(i, "data")
    /\ cache' = SetData(cache, Key, thr[i].v)
    /\ Goto(i, "currsize")
    /\ UNCHANGED Others

\* self.__currsize += diffsize, the read
StoreReadCurrsize(i) ==
    /\ At(i, "currsize")
    /\ Set(i, [thr[i] EXCEPT !.pc = "currsize write", !.cs = cache.currsize])
    /\ UNCHANGED <<cache, Others>>

\* self.__currsize += diffsize, the write
StoreWriteCurrsize(i) ==
    /\ At(i, "currsize write")
    /\ cache' = SetCurrsize(cache, thr[i].cs + thr[i].diffsize)
    /\ Set(i, [thr[i] EXCEPT !.pc = "order", !.cs = 0])
    /\ UNCHANGED Others

\* LRUCache.__setitem__: self.__update(key); then the wrapper returns v
StoreOrder(i) ==
    /\ At(i, "order")
    /\ Update(i, Key, "return v")
    /\ UNCHANGED Others

\* LRUCache.__update(key), after KeyError: self.__order[key] = None
InsertOrderStep(i) ==
    /\ At(i, "insert order")
    /\ cache' = InsertOrder(cache, thr[i].uk)
    /\ Mutate(i, Continue(thr[i]), InsertOrder(cache, thr[i].uk))
    /\ UNCHANGED Others

NextConc ==
    \E i \in Threads :
        \/ KeyStep(i) \/ LookupStep(i) \/ LookupIn(i) \/ LookupUpdate(i)
        \/ ComputeStep(i) \/ StoreCheck(i) \/ StoreRoom(i)
        \/ PopIter(i) \/ PopNext(i) \/ PopCheck(i) \/ PopGet(i) \/ PopIn(i)
        \/ PopTouch(i) \/ PopDelData(i) \/ PopReadCurrsize(i)
        \/ PopWriteCurrsize(i) \/ PopDelOrder(i)
        \/ StoreDiffsize(i) \/ StoreData(i)
        \/ StoreReadCurrsize(i) \/ StoreWriteCurrsize(i) \/ StoreOrder(i)
        \/ InsertOrderStep(i)

SpecConc == InitConc /\ [][NextConc]_vars

AllDone == \A i \in Threads : thr[i].pc = "done"
\* what a call that runs alone gives from the same starting cache
Sequential1 == CachedCall(cache0, cin)

\* C7: when both concurrent calls (for at least one date) are over, each
\* has the outcome a sequential call has, and the cache holds that matrix
\* for the key
C7_RaceKeepsResults ==
    AllDone /\ cin[1] # << >> =>
        /\ \A i \in Threads : thr[i].out = Sequential1.out
        /\ Sequential1.out.kind = "matrix" =>
              /\ Has(cache, Key)
              /\ GetValue(cache, Key) = Sequential1.out.m

(***************************************************************************)
(* ccd/qa.py: masks, counts, ratios and filters over a quality array       *)
(* (one CFMask code per observation) and the observations themselves.      *)
(***************************************************************************)
\* longest quality array of a count or a ratio
MaxObs == 3
\* longest quality array / observation matrix of a filter
MaxFilterObs == 2

QA_CLEAR == 0
QA_WATER == 1
QA_SHADOW == 2
QA_SNOW == 3
QA_CLOUD == 4
QA_FILL == 255
Codes == {QA_CLEAR, QA_WATER, QA_SHADOW, QA_SNOW, QA_CLOUD, QA_FILL}

Mask(quality, code) == [i \in 1..Len(quality) |-> quality[i] = code]
mask_snow(quality) == Mask(quality, QA_SNOW)
mask_clear(quality) == Mask(quality, QA_CLEAR)
mask_water(quality) == Mask(quality, QA_WATER)
mask_fill(quality) == Mask(quality, QA_FILL)
mask_clear_or_water(quality) ==
    [i \in 1..Len(quality) |-> mask_clear(quality)[i] \/ mask_water(quality)[i]]

\* np.sum of a boolean array: the number of True
Sum(mask) == Cardinality({i \in 1..Len(mask) : mask[i]})
Not(mask) == [i \in 1..Len(mask) |-> ~mask[i]]

count_clear_or_water_twice(quality) ==
    Sum(mask_clear_or_water(quality)) + Sum(mask_water(quality))

\* np.sum([mask_clear, mask_water]): the sum over both masks
count_clear_or_water(quality) == Sum(mask_clear(quality)) + Sum(mask_water(quality))
count_fill(quality) == Sum(mask_fill(quality))
count_snow(quality) == Sum(mask_snow(quality))
count_total(quality) == Sum(Not(mask_fill(quality)))

\* numpy's true division of two integer counts: zero by zero is nan, a
\* positive count by zero is inf (a RuntimeWarning, no exception)
Divide(num, den) ==
    IF den # 0 THEN [kind |-> "ratio", num |-> num, den |-> den]
    ELSE IF num = 0 THEN [kind |-> "nan", num |-> num, den |-> den]
    ELSE [kind |-> "inf", num |-> num, den |-> den]

ratio_clear(quality) == Divide(count_clear_or_water(quality), count_total(quality))

ratio_snow_no_epsilon(quality) ==
    Divide(100 * count_snow(quality),
           100 * (count_clear_or_water(quality) + count_snow(quality)))

\* count_snow / (clear_count + snowy_count + 0.01), both sides times 100
ratio_snow(quality) ==
    Divide(100 * count_snow(quality),
           100 * (count_clear_or_water(quality) + count_snow(quality)) + 1)

\* one observation: the six spectral bands 0..5 and the thermal band
Column(b, th) == [spectral |-> [k \in 1..6 |-> b[k]], thermal |-> th]
Good == Column(<<5000, 5000, 5000, 5000, 5000, 5000>>, 2500)
Saturated == Column(<<5000, 5000, 10000, 5000, 5000, 5000>>, 2500)
Cold == Column(<<5000, 5000, 5000, 5000, 5000, 5000>>, 1799)
Columns == {Good, Saturated, Cold}

\* every one of the six bands strictly inside (0, 10000)
filter_saturated(observations) ==
    [i \in 1..Len(observations) |->
        \A k \in 1..6 : 0 < observations[i].spectral[k]
                        /\ observations[i].spectral[k] < 10000]

\* strictly inside (179.95 * 10, 343.85 * 10), both sides times 10
filter_thermal(thermal) ==
    [i \in 1..Len(thermal) |-> 10 * thermal[i] > 17995 /\ 10 * thermal[i] < 34385]

clear_index_or(quality) ==
    [i \in 1..Len(quality) |-> (quality[i] = QA_CLEAR) \/ (quality[i] = QA_WATER)]

\* (quality == clear) & (quality == water)
clear_index(quality) ==
    [i \in 1..Len(quality) |-> (quality[i] = QA_CLEAR) /\ (quality[i] = QA_WATER)]

ThermalRow(observations) == [i \in 1..Len(observations) |-> observations[i].thermal]

standard_filter(observations, quality) ==
    [i \in 1..Len(quality) |->
        /\ clear_index(quality)[i]
        /\ filter_thermal(ThermalRow(observations))[i]
        /\ filter_saturated(observations)[i]]

(***************************************************************************)
(* fitted_model.  The regression engine and calc_rmse are collaborators:   *)
(* a fit is the pair it was given, predict accepts a matrix only.          *)
(***************************************************************************)
TheFunction == [kind |-> "function", m |-> NoMatrix]
Fit(X, y) == [X |-> X, y |-> y]
Predict(model, X) ==
    IF X.kind = "matrix" THEN [kind |-> "predictions", model |-> model, X |-> X.m]
    ELSE [kind |-> "rejected", model |-> model, X |-> NoMatrix]
calc_rmse(observations, predictions) ==
    [rmse |-> [of |-> observations, against |-> predictions],
     residuals |-> [of |-> observations, against |-> predictions]]

\* line 66 hands predict the name coefficient_matrix, the function, and not
\* coef_matrix, the matrix
PredictArgument(coef_matrix) == TheFunction

fitted_model(c, dates, observations, df) ==
    LET call == CachedCall(c, <<dates, df>>) IN
    IF call.out.kind # "matrix"
    THEN [out |-> [kind |-> call.out.kind], cache |-> call.cache]
    ELSE LET model == Fit(call.out.m, observations)
             predictions == Predict(model, PredictArgument(call.out))
         IN IF predictions.kind # "predictions"
            THEN [out |-> [kind |-> "rejected"], cache |-> call.cache]
            ELSE [out |-> [kind |-> "bundle", model |-> model,
                           rmse |-> calc_rmse(observations, predictions).rmse,
                           residual |-> calc_rmse(observations, predictions).residuals,
                           predicted_on |-> predictions.X],
                  cache |-> call.cache]

(***************************************************************************)
(* One application of a function to an input drawn from the bounded sets.  *)
(***************************************************************************)
SeqsUpTo(S, n) == UNION {[1..k -> S] : k \in 0..n}
ObsValues == {0, 1}

QualityInputs == {[fn |-> "quality", quality |-> q] : q \in SeqsUpTo(Codes, MaxObs)}
FilterInputs ==
    UNION {{[fn |-> "filter", quality |-> q, observations |-> o] :
               q \in [1..n -> Codes], o \in [1..n -> Columns]} : n \in 0..MaxFilterObs}
MatrixInputs ==
    {[fn |-> "coefficient_matrix", dates |-> d, num_coeffs |-> n] :
        d \in Dates, n \in Coeffs}
FitInputs ==
    UNION {{[fn |-> "fitted_model", dates |-> d, observations |-> o, df |-> n] :
               o \in [1..Len(d) -> ObsValues], n \in Coeffs} : d \in Dates}

InitFn ==
    /\ fin \in QualityInputs \cup FilterInputs \cup MatrixInputs \cup FitInputs
    /\ fout = NoOutput
    /\ cache = EmptyCache
    /\ last = NoCall
    /\ watch = NoCall
    /\ recent = << >>
    /\ thr = NoThreads
    /\ cin = << >>
    /\ cache0 = EmptyCache

Pending(fn) == fin.fn = fn /\ fout = NoOutput
Rest == <<last, watch, recent, thr, cin, cache0, fin>>

ApplyRatioClear ==
    /\ Pending("quality")
    /\ fout' = [kind |-> "ratio_clear", value |-> ratio_clear(fin.quality)]
    /\ UNCHANGED <<cache, Rest>>

ApplyRatioSnow ==
    /\ Pending("quality")
    /\ fout' = [kind |-> "ratio_snow", value |-> ratio_snow(fin.quality)]
    /\ UNCHANGED <<cache, Rest>>

ApplyClearIndex ==
    /\ Pending("quality")
    /\ fout' = [kind |-> "clear_index", mask |-> clear_index(fin.quality)]
    /\ UNCHANGED <<cache, Rest>>

ApplyStandardFilter ==
    /\ Pending("filter")
    /\ fout' = [kind |-> "standard_filter",
                mask |-> standard_filter(fin.observations, fin.quality)]
    /\ UNCHANGED <<cache, Rest>>

\* the function the wrapper runs on a miss, with the arguments it is given
ApplyCoefficientMatrix ==
    /\ Pending("coefficient_matrix")
    /\ fout' = Returned(coefficient_matrix_body(fin.dates, fin.num_coeffs))
    /\ UNCHANGED <<cache, Rest>>

ApplyFittedModel ==
    /\ Pending("fitted_model")
    /\ LET r == fitted_model(cache, fin.dates, fin.observations, fin.df) IN
       /\ fout' = r.out
       /\ cache' = r.cache
    /\ UNCHANGED Rest

NextFn ==
    \/ ApplyRatioClear
    \/ ApplyRatioSnow
    \/ ApplyClearIndex
    \/ ApplyStandardFilter
    \/ ApplyCoefficientMatrix
    \/ ApplyFittedModel

SpecFn == InitFn /\ [][NextFn]_vars

(***************************************************************************)
(* Claims about the functions.                                             *)
(***************************************************************************)
Applied(fn, kind) == fin.fn = fn /\ fout # NoOutput /\ fout.kind = kind

\* C1: a computed matrix holds the date in column 0 and cos(wt), sin(wt) in
\* columns 1,2 of every row; cos(2wt), sin(2wt) in columns 3,4 whenever
\* num_coeffs >= 6; cos(3wt), sin(3wt) in columns 5,6 exactly when
\* num_coeffs = 8
C1_HarmonicColumns ==
    Applied("coefficient_matrix", "matrix") =>
        \A i \in 1..Len(fin.dates) :
            LET t == fin.dates[i]
                row == fout.m[i]
            IN /\ row[1] = Val(t)
               /\ row[2] = Trig("cos", 1, t) /\ row[3] = Trig("sin", 1, t)
               /\ fin.num_coeffs >= 6 =>
                     row[4] = Trig("cos", 2, t) /\ row[5] = Trig("sin", 2, t)
               /\ fin.num_coeffs = 8 <=>
                     row[6] = Trig("cos", 3, t) /\ row[7] = Trig("sin", 3, t)

\* C3: fitted_model on dates, as many observations and df in {4,6,8} ends
\* with a bundle whose predictions were made on the matrix the fit was given
C3_FittedModelReturnsBundle ==
    fin.fn = "fitted_model" /\ fin.dates # << >> /\ fout # NoOutput =>
        /\ fout.kind = "bundle"
        /\ fout.predicted_on = fout.model.X

\* C6: clear_index, and so standard_filter, is False at every observation
C6_ClearIndexAllFalse ==
    Applied("quality", "clear_index") \/ Applied("filter", "standard_filter") =>
        /\ Len(fout.mask) = Len(fin.quality)
        /\ \A i \in 1..Len(fout.mask) : ~fout.mask[i]

\* standard_filter ran on a clear observation inside the thermal and
\* saturation ranges
C6_Witness ==
    /\ Applied("filter", "standard_filter")
    /\ \E i \in 1..Len(fin.quality) :
          fin.quality[i] = QA_CLEAR /\ fin.observations[i] = Good

\* C8: ratio_snow divides by a positive number and lies in [0,1)
C8_RatioSnowRange ==
    Applied("quality", "ratio_snow") =>
        /\ fout.value.kind = "ratio"
        /\ fout.value.den > 0
        /\ 0 <= fout.value.num
        /\ fout.value.num < fout.value.den

\* ratio_snow ran on a non-empty array of fill codes only
C8_Witness ==
    /\ Applied("quality", "ratio_snow")
    /\ fin.quality # << >>
    /\ \A i \in 1..Len(fin.quality) : fin.quality[i] = QA_FILL

NonFill(quality) == Cardinality({i \in 1..Len(quality) : quality[i] # QA_FILL})

\* C9: with a non-fill observation, ratio_clear is a fraction in [0,1] whose
\* numerator does not exceed the number of non-fill observations; without
\* one, the division is by zero
C9_RatioClearRange ==
    Applied("quality", "ratio_clear") =>
        IF NonFill(fin.quality) > 0
        THEN /\ fout.value.kind = "ratio"
             /\ 0 <= fout.value.num
             /\ fout.value.num <= fout.value.den
             /\ fout.value.den = NonFill(fin.quality)
        ELSE fout.value.kind # "ratio" /\ fout.value.den = 0

\* ratio_clear ran on an array with a clear, a water and another non-fill
\* observation
C9_Witness ==
    /\ Applied("quality", "ratio_clear")
    /\ \E i, j, k \in 1..Len(fin.quality) :
          /\ fin.quality[i] = QA_CLEAR
          /\ fin.quality[j] = QA_WATER
          /\ fin.quality[k] = QA_SNOW

====
